---- MODULE Spec2Model ----
(***************************************************************************)
(* Rule L027 of sqlfluff: references should be qualified if a select has   *)
(* more than one referenced table/view.  The model covers                  *)
(* Rule_L027._is_qualified_reference and                                   *)
(* Rule_L027._lint_references_and_aliases (src/sqlfluff/rules/L027.py).    *)
(***************************************************************************)
EXTENDS Integers, Sequences, FiniteSets, TLC

(* ---------------------------------------------------------------- bounds *)
MaxRefs == 2
MaxTables == 2
MaxColAliases == 1
MaxUsing == 1

(* Raw texts are sequences of one-character strings.                        *)
Id == <<"i", "d">>
QuotedName == <<"\"", "o", "'", "c", "\"">>
Raws == {Id, QuotedName}

(* The reference segments of the parsed statement, named by position.       *)
SegIds == {1, 2}
Quals == {"qualified", "unqualified"}
NoDialect == "None"
Dialects == {"redshift", "ansi", NoDialect}

SeqsUpTo(S, n) == UNION {[1..k -> S] : k \in 0..n}

(* Lists of USING columns name each column once: the code only tests       *)
(* membership in using_cols, so a repeated name changes nothing.           *)
UsingColLists ==
    {s \in SeqsUpTo(Raws, MaxUsing) : \A i, j \in 1..Len(s) : s[i] = s[j] => i = j}

VARIABLES
    segs,            \* position -> [raw, qual]: the reference segments
    table_aliases,   \* List[AliasInfo], each with a ref_str
    references,      \* List[BaseSegment]: positions, in discovery order
    col_aliases,     \* List[ColumnAliasInfo]
    using_cols,      \* List[str]
    dialect_name,    \* Optional[str]
    calls,           \* 1 once _lint_references_and_aliases has returned
    violation_buff,  \* the buffer of violations of the last call
    result           \* the last return value

inputs == <<segs, table_aliases, references, col_aliases, using_cols, dialect_name>>
vars == <<segs, table_aliases, references, col_aliases, using_cols, dialect_name,
          calls, violation_buff, result>>

(* ------------------------------------------------------- return values *)
NoneResult == [none |-> TRUE, list |-> <<>>]
ListResult(buff) == [none |-> FALSE, list |-> buff]

BuffAsIs(buff) == ListResult(buff)

(* violation_buff or None *)
BuffOrNone(buff) == IF buff = <<>> THEN NoneResult ELSE ListResult(buff)

(* ------------------------------------------------------------- repr() *)
Contains(s, c) == \E i \in 1..Len(s) : s[i] = c

(* The quote character repr() puts around the text. *)
ReprQuote(s) == IF Contains(s, "'") /\ ~Contains(s, "\"") THEN "\"" ELSE "'"

ReprCharUnescaped(c, q) == <<c>>

(* a backslash and the surrounding quote are escaped with a backslash *)
ReprChar(c, q) == IF c = "\\" \/ c = q THEN <<"\\", c>> ELSE <<c>>

RECURSIVE ReprBody(_, _)
ReprBody(s, q) ==
    IF s = <<>> THEN <<>> ELSE ReprChar(Head(s), q) \o ReprBody(Tail(s), q)

Repr(s) == <<ReprQuote(s)>> \o ReprBody(s, ReprQuote(s)) \o <<ReprQuote(s)>>

DescriptionHead == "Unqualified reference "
DescriptionTail == " found in select with more than one referenced table/view."

Description(raw) == <<DescriptionHead>> \o Repr(raw) \o <<DescriptionTail>>

LintResult(r) == [anchor |-> r, description |-> Description(segs[r].raw)]

(* --------------------------------------------- _is_qualified_reference *)
InList(x, s) == \E i \in 1..Len(s) : s[i] = x

NeverQualifiedSyntactically(reference) == FALSE

(* reference.qualification() != "unqualified" *)
QualifiedSyntactically(reference) == segs[reference].qual # "unqualified"

(* reference.raw in col_alias_names *)
RawInColAliasNames(reference, col_alias_names) ==
    InList(segs[reference].raw, col_alias_names)

RawNeverInUsingCols(reference, using_cols_) == FALSE

(* reference.raw in using_cols *)
RawInUsingCols(reference, using_cols_) == InList(segs[reference].raw, using_cols_)

TableNameInAnyDialect(reference, table_alias_names, dialect_name_) ==
    InList(segs[reference].raw, table_alias_names)

(* dialect_name == "redshift" and reference.raw in table_alias_names *)
RedshiftTableName(reference, table_alias_names, dialect_name_) ==
    dialect_name_ = "redshift" /\ InList(segs[reference].raw, table_alias_names)

_is_qualified_reference(reference, table_alias_names, col_alias_names, using_cols_, dialect_name_) ==
    \/ QualifiedSyntactically(reference)
    \/ RawInColAliasNames(reference, col_alias_names)
    \/ RawInUsingCols(reference, using_cols_)
    \/ RedshiftTableName(reference, table_alias_names, dialect_name_)

(* --------------------------------------- _lint_references_and_aliases *)
NoSourceGate == Len(table_aliases) < 1

(* len(table_aliases) <= 1 *)
SingleSourceGate == Len(table_aliases) <= 1

(* [table_alias.ref_str for table_alias in table_aliases] *)
TableAliasNames == [i \in 1..Len(table_aliases) |-> table_aliases[i].ref_str]

KeepsAliasByRaw(c, r) ==
    \A s \in c.column_reference_segments : segs[s].raw # segs[r].raw

KeepsAliasAlways(c, r) == TRUE

(* r not in c.column_reference_segments *)
KeepsAlias(c, r) == r \notin c.column_reference_segments

RECURSIVE ColAliasNamesFrom(_, _)
ColAliasNamesFrom(cs, r) ==
    IF cs = <<>> THEN <<>>
    ELSE (IF KeepsAlias(Head(cs), r) THEN <<Head(cs).alias_identifier_name>> ELSE <<>>)
         \o ColAliasNamesFrom(Tail(cs), r)

(* the list comprehension of lines 81-85 *)
ColAliasNames(r) == ColAliasNamesFrom(col_aliases, r)

IsViolation(r) ==
    ~_is_qualified_reference(r, TableAliasNames, ColAliasNames(r), using_cols,
                             dialect_name)

StaleBuff == violation_buff

(* violation_buff = [] *)
NewBuff == <<>>

PrependViolation(buff, v) == <<v>> \o buff

(* violation_buff.append(LintResult(...)) *)
AppendViolation(buff, v) == Append(buff, v)

RECURSIVE ForEachReference(_, _)
ForEachReference(rs, buff) ==
    IF rs = <<>> THEN buff
    ELSE ForEachReference(
             Tail(rs),
             IF IsViolation(Head(rs))
             THEN AppendViolation(buff, LintResult(Head(rs)))
             ELSE buff)

(* ------------------------------------------------------ state machine *)
ColumnAliasInfos ==
    [alias_identifier_name : Raws, column_reference_segments : SUBSET SegIds]

Init ==
    /\ segs \in [SegIds -> [raw : Raws, qual : Quals]]
    /\ table_aliases \in SeqsUpTo([ref_str : Raws], MaxTables)
    /\ references \in SeqsUpTo(SegIds, MaxRefs)
    /\ col_aliases \in SeqsUpTo(ColumnAliasInfos, MaxColAliases)
    /\ using_cols \in UsingColLists
    /\ dialect_name \in Dialects
    /\ calls = 0
    /\ violation_buff = <<>>
    /\ result = NoneResult

(* One call of _lint_references_and_aliases on the statement. *)
Lint ==
    /\ calls' = 1
    /\ IF SingleSourceGate
       THEN /\ result' = NoneResult
            /\ UNCHANGED violation_buff
       ELSE /\ violation_buff' = ForEachReference(references, NewBuff)
            /\ result' = BuffOrNone(violation_buff')
    /\ UNCHANGED inputs

Next == Lint

Spec == Init /\ [][Next]_vars

(* ============================================================= claims *)
(* Vocabulary of the claims, stated on the inputs and the returned value.  *)
Called == calls = 1
MultiSource == Len(table_aliases) >= 2
RawOf(r) == segs[r].raw
Unqualified(r) == segs[r].qual = "unqualified"
Supplied(r) == \E i \in 1..Len(references) : references[i] = r
Anchors == [i \in 1..Len(result.list) |-> result.list[i].anchor]
Flagged(r) == \E i \in 1..Len(result.list) : result.list[i].anchor = r
UsingDeclares(name) == \E i \in 1..Len(using_cols) : using_cols[i] = name
IsTableAliasName(name) ==
    \E i \in 1..Len(table_aliases) : table_aliases[i].ref_str = name
AliasNamed(name) ==
    \E i \in 1..Len(col_aliases) : col_aliases[i].alias_identifier_name = name
AliasDefinedElsewhere(r) ==
    \E i \in 1..Len(col_aliases) :
        /\ col_aliases[i].alias_identifier_name = RawOf(r)
        /\ r \notin col_aliases[i].column_reference_segments
RedshiftException(r) == dialect_name = "redshift" /\ IsTableAliasName(RawOf(r))

(* A reference none of the four exceptions covers. *)
NoException(r) ==
    /\ Unqualified(r)
    /\ ~AliasDefinedElsewhere(r)
    /\ ~UsingDeclares(RawOf(r))
    /\ ~RedshiftException(r)

(* C1: with at most one table source the call returns none, whatever the   *)
(* references, column aliases, USING columns and dialect are.              *)
C1_SingleSourceGate ==
    (Called /\ Len(table_aliases) <= 1) => result = NoneResult

(* C1 witness: one table source and a supplied reference that no exception *)
(* covers, yet nothing is reported.                                         *)
C1_Witness ==
    /\ Called
    /\ Len(table_aliases) = 1
    /\ \E r \in SegIds : Supplied(r) /\ NoException(r)
    /\ result = NoneResult

(* C2: with two or more table sources, a reference whose qualification     *)
(* status is "qualified" is never the anchor of a returned violation.      *)
C2_QualifiedNeverFlagged ==
    (Called /\ MultiSource) =>
        \A r \in SegIds : segs[r].qual = "qualified" => ~Flagged(r)

(* C2 witness: a qualified reference is supplied beside an unqualified one  *)
(* that is reported.                                                        *)
C2_Witness ==
    /\ Called /\ MultiSource
    /\ \E r \in SegIds :
         Supplied(r) /\ segs[r].qual = "qualified" /\ ~AliasNamed(RawOf(r))
         /\ ~UsingDeclares(RawOf(r)) /\ ~Flagged(r)
    /\ \E r \in SegIds : Flagged(r)

(* C3: with two or more table sources, an unqualified reference whose raw  *)
(* text is a USING column is not reported; a supplied unqualified          *)
(* reference whose raw text is no USING column and no column alias, in a   *)
(* dialect other than Redshift, is reported, anchored at it.               *)
C3_UsingException ==
    (Called /\ MultiSource) =>
        \A r \in SegIds :
            /\ (Unqualified(r) /\ UsingDeclares(RawOf(r))) => ~Flagged(r)
            /\ ( /\ Supplied(r) /\ Unqualified(r)
                 /\ ~UsingDeclares(RawOf(r))
                 /\ ~AliasNamed(RawOf(r))
                 /\ dialect_name # "redshift" ) => Flagged(r)

(* C3 witness: USING (id), an unqualified id that is not reported and an    *)
(* unqualified reference to another name that is.                           *)
C3_Witness ==
    /\ Called /\ MultiSource
    /\ using_cols = <<Id>>
    /\ col_aliases = <<>>
    /\ dialect_name # "redshift"
    /\ \E r, o \in SegIds :
         /\ Supplied(r) /\ Unqualified(r) /\ RawOf(r) = Id /\ ~Flagged(r)
         /\ Supplied(o) /\ Unqualified(o) /\ RawOf(o) # Id /\ Flagged(o)

(* C4: with two or more table sources, a supplied unqualified reference    *)
(* whose raw text is a table alias name, and that matches no eligible      *)
(* column alias and no USING column, is reported exactly when the dialect  *)
(* name is not "redshift" (none included).                                 *)
C4_RedshiftException ==
    (Called /\ MultiSource) =>
        \A r \in SegIds :
            ( /\ Supplied(r) /\ Unqualified(r)
              /\ IsTableAliasName(RawOf(r))
              /\ ~AliasDefinedElsewhere(r)
              /\ ~UsingDeclares(RawOf(r)) )
            => (Flagged(r) <=> dialect_name # "redshift")

(* C4 witness, Redshift side: the table-name reference is not reported.     *)
C4_Witness ==
    /\ Called /\ MultiSource
    /\ dialect_name = "redshift"
    /\ \E r \in SegIds :
         /\ Supplied(r) /\ Unqualified(r) /\ IsTableAliasName(RawOf(r))
         /\ ~AliasDefinedElsewhere(r) /\ ~UsingDeclares(RawOf(r))
         /\ ~Flagged(r)

(* The same reference under an unset dialect name: reported.                *)
C4_WitnessUnsetDialect ==
    /\ Called /\ MultiSource
    /\ dialect_name = NoDialect
    /\ \E r \in SegIds :
         /\ Supplied(r) /\ Unqualified(r) /\ IsTableAliasName(RawOf(r))
         /\ ~AliasDefinedElsewhere(r) /\ ~UsingDeclares(RawOf(r))
         /\ Flagged(r)

(* C5: with two or more table sources, an unqualified reference r is not   *)
(* reported whenever some column alias is named r's raw text and r is not  *)
(* in that alias's own column-reference set, also when that set holds a    *)
(* different reference with the same raw text.                             *)
C5_ColumnAliasException ==
    (Called /\ MultiSource) =>
        \A r \in SegIds :
            (Unqualified(r) /\ AliasDefinedElsewhere(r)) => ~Flagged(r)

(* C5 witness: the alias's expression holds another reference with r's raw  *)
(* text, no other exception covers r, and r is not reported.                *)
C5_Witness ==
    /\ Called /\ MultiSource
    /\ \E r \in SegIds :
         /\ Supplied(r) /\ Unqualified(r)
         /\ ~UsingDeclares(RawOf(r)) /\ ~RedshiftException(r)
         /\ \E i \in 1..Len(col_aliases) :
              /\ col_aliases[i].alias_identifier_name = RawOf(r)
              /\ r \notin col_aliases[i].column_reference_segments
              /\ \E o \in col_aliases[i].column_reference_segments :
                    o # r /\ RawOf(o) = RawOf(r)
         /\ ~Flagged(r)

(* C6: with two or more table sources, a supplied unqualified reference r  *)
(* inside the defining expression of a column alias named r's raw text is  *)
(* reported, provided no column alias of that name leaves r out of its     *)
(* reference set, r's raw text is no USING column and the Redshift         *)
(* table-name exception does not apply.                                    *)
C6_SelfReferenceTrap ==
    (Called /\ MultiSource) =>
        \A r \in SegIds :
            ( /\ Supplied(r) /\ Unqualified(r)
              /\ \E i \in 1..Len(col_aliases) :
                    /\ col_aliases[i].alias_identifier_name = RawOf(r)
                    /\ r \in col_aliases[i].column_reference_segments
              /\ ~AliasDefinedElsewhere(r)
              /\ ~UsingDeclares(RawOf(r))
              /\ ~RedshiftException(r) )
            => Flagged(r)

(* C6 witness: SELECT a AS a with two sources: the inner reference is       *)
(* reported.                                                                *)
C6_Witness ==
    /\ Called /\ MultiSource
    /\ \E r \in SegIds :
         /\ Supplied(r) /\ Unqualified(r)
         /\ \E i \in 1..Len(col_aliases) :
               /\ col_aliases[i].alias_identifier_name = RawOf(r)
               /\ r \in col_aliases[i].column_reference_segments
         /\ ~AliasDefinedElsewhere(r)
         /\ Flagged(r)

(* Is a the sequence of the entries of s at increasing positions?           *)
RECURSIVE IsSubsequence(_, _)
IsSubsequence(a, s) ==
    IF a = <<>> THEN TRUE
    ELSE IF s = <<>> THEN FALSE
    ELSE IF Head(a) = Head(s) THEN IsSubsequence(Tail(a), Tail(s))
    ELSE IsSubsequence(a, Tail(s))

Occurrences(x, s) == Cardinality({i \in 1..Len(s) : s[i] = x})

(* C7: the anchors of the returned violations are a subsequence of the     *)
(* supplied references, in the order supplied; and every occurrence of a   *)
(* reference is treated alike, whatever was scanned before it.             *)
C7_OrderStability ==
    Called =>
        /\ IsSubsequence(Anchors, references)
        /\ \A r \in SegIds :
              Occurrences(r, Anchors) \in {0, Occurrences(r, references)}

(* C7 witness: two different references, both reported, in supplied order.  *)
C7_Witness ==
    /\ Called
    /\ Len(references) >= 2
    /\ references[1] # references[2]
    /\ Len(Anchors) >= 2
    /\ Anchors[1] = references[1]
    /\ Anchors[2] = references[2]

(* C8: the call returns none exactly when no supplied reference is         *)
(* reported (or the gate applies), otherwise the non-empty buffer; never   *)
(* an empty sequence; an empty references list yields none.                *)
C8_ResultShape ==
    Called =>
        /\ result.none <=>
              (Len(table_aliases) <= 1
               \/ \A i \in 1..Len(references) : ~NoException(references[i]))
        /\ result.none => result.list = <<>>
        /\ ~result.none => (result.list # <<>> /\ result.list = violation_buff)
        /\ references = <<>> => result = NoneResult

(* C8 witness: two or more sources, no references and no column aliases.    *)
C8_Witness ==
    /\ Called /\ MultiSource
    /\ references = <<>>
    /\ col_aliases = <<>>
    /\ result = NoneResult

(* C9: a second call on the same inputs returns what the first returned,   *)
(* and no call changes an input collection.                                *)
C9_Idempotence ==
    [][ /\ inputs' = inputs
        /\ Called => result' = result ]_vars

(* C9 witness: a call has returned a non-empty sequence of violations.      *)
C9_Witness ==
    /\ Called
    /\ Len(result.list) >= 2

(* The description as the claim words it: the raw text between quotes.      *)
QuotedDescription(raw) ==
    <<DescriptionHead>> \o <<"'">> \o raw \o <<"'">> \o <<DescriptionTail>>

(* repr() of a text, by cases on the characters it holds.                   *)
Escaped(raw, q) ==
    LET piece(c) == IF c = "\\" THEN <<"\\", "\\">>
                    ELSE IF c = q THEN <<"\\", q>>
                    ELSE <<c>>
        F[i \in 0..Len(raw)] == IF i = 0 THEN <<>> ELSE F[i - 1] \o piece(raw[i])
    IN F[Len(raw)]

PythonRepr(raw) ==
    LET has(c) == \E i \in 1..Len(raw) : raw[i] = c
    IN IF has("'") /\ ~has("\"")
       THEN <<"\"">> \o Escaped(raw, "\"") \o <<"\"">>
       ELSE <<"'">> \o Escaped(raw, "'") \o <<"'">>

ReprDescription(raw) ==
    <<DescriptionHead>> \o PythonRepr(raw) \o <<DescriptionTail>>

(* The supplied references that no exception covers, in order.              *)
RECURSIVE Reported(_)
Reported(rs) ==
    IF rs = <<>> THEN <<>>
    ELSE (IF NoException(Head(rs)) THEN <<Head(rs)>> ELSE <<>>) \o Reported(Tail(rs))

(* C10 as claimed: with two or more table sources, exactly one violation   *)
(* per supplied reference that none of the four exceptions covers, in      *)
(* order, each described as Unqualified reference '<raw>' found in select  *)
(* with more than one referenced table/view.                               *)
C10_AsClaimed ==
    (Called /\ MultiSource) =>
        LET reported == Reported(references)
        IN result.list =
              [i \in 1..Len(reported) |->
                  [anchor |-> reported[i],
                   description |-> QuotedDescription(RawOf(reported[i]))]]

(* C10 amended: the same violations, each described with repr() of the raw *)
(* text: between single quotes with backslashes and single quotes escaped, *)
(* or between double quotes when the text holds a single quote and no      *)
(* double quote; this is '<raw>' when the text holds neither a single      *)
(* quote nor a backslash.                                                  *)
C10_ExactReport ==
    (Called /\ MultiSource) =>
        /\ LET reported == Reported(references)
           IN result.list =
                 [i \in 1..Len(reported) |->
                     [anchor |-> reported[i],
                      description |-> ReprDescription(RawOf(reported[i]))]]
        /\ \A i \in 1..Len(result.list) :
              LET raw == RawOf(result.list[i].anchor)
              IN (\A k \in 1..Len(raw) : raw[k] \notin {"'", "\\"})
                 => result.list[i].description = QuotedDescription(raw)

(* C10 witness: a reported reference whose name holds a single quote, so   *)
(* that repr() escapes it, beside a supplied unqualified reference that an  *)
(* exception covers.                                                        *)
C10_Witness ==
    /\ Called /\ MultiSource
    /\ \E i \in 1..Len(result.list) :
          /\ RawOf(result.list[i].anchor) = QuotedName
          /\ result.list[i].description = ReprDescription(QuotedName)
    /\ \E r \in SegIds : Supplied(r) /\ Unqualified(r) /\ ~NoException(r)
====
